---------------------------- MODULE Spec2Model ----------------------------
(***************************************************************************)
(* Model of packages/metaboxes/conditional-display/aperture/post-parent.js *)
(* (carbon-fields): the two filters that derive the hierarchical position  *)
(* { post_ancestors, post_parent_id, post_level } of the post being edited *)
(*                                                                         *)
(*   - the classic editor filter reads the <select id="parent_id"> whose   *)
(*     options carry the depth of a page in a `level-N` class;             *)
(*   - the Gutenberg filter reads the (post id, type, parent) triple and   *)
(*     the { id, parent } records of the core store.                       *)
(*                                                                         *)
(* JavaScript strings are sequences of one-character strings, so that      *)
(* parseInt and the /^level-(\d+)/ match are computed, not assumed.        *)
(***************************************************************************)
EXTENDS Integers, Sequences, FiniteSets

(***************************************************************************)
(* Bounds of the model.                                                    *)
(***************************************************************************)
\* child nodes of the <select> in the classic editor
MaxChildren == 2
\* selection changes made by the user in the classic editor
MaxChanges == 2
\* posts of a forest rendered both as an option list and as records
MaxPosts == 3
\* records of an arbitrary record collection, and the ids they use
MaxRecords == 3
MaxRecId == 3
\* activations of a recursive function the engine's call stack can hold
CallStackLimit == 8

(***************************************************************************)
(* JavaScript values.                                                      *)
(***************************************************************************)
JSNumber(n) == [type |-> "number", num |-> n, str |-> <<>>]
JSString(s) == [type |-> "string", num |-> 0, str |-> s]
Undefined == [type |-> "undefined", num |-> 0, str |-> <<>>]

\* The result of parseInt: an integer or NaN.
NaN == [nan |-> TRUE, n |-> 0]
Int32(n) == [nan |-> FALSE, n |-> n]
isNaN(v) == v.nan

DigitChars == <<"0", "1", "2", "3", "4", "5", "6", "7", "8", "9">>
IsDigit(c) == \E i \in 1..10 : DigitChars[i] = c
DigitVal(c) == (CHOOSE i \in 1..10 : DigitChars[i] = c) - 1

\* Number::toString for an integer.
RECURSIVE NatToString(_)
NatToString(n) ==
    IF n < 10 THEN <<DigitChars[n + 1]>>
    ELSE NatToString(n \div 10) \o <<DigitChars[(n % 10) + 1]>>

toString(v) ==
    CASE v.type = "string" -> v.str
      [] v.type = "number" ->
            IF v.num < 0 THEN <<"-">> \o NatToString(-v.num) ELSE NatToString(v.num)
      [] OTHER -> <<"u", "n", "d", "e", "f", "i", "n", "e", "d">>

RECURSIVE SkipWhiteSpace(_)
SkipWhiteSpace(s) ==
    IF s # <<>> /\ Head(s) = " " THEN SkipWhiteSpace(Tail(s)) ELSE s

\* The longest prefix of s made of decimal digits: what (\d+) and parseInt take.
RECURSIVE DigitRun(_)
DigitRun(s) ==
    IF s # <<>> /\ IsDigit(Head(s)) THEN <<Head(s)>> \o DigitRun(Tail(s)) ELSE <<>>

RECURSIVE DigitsValue(_)
DigitsValue(ds) ==
    IF ds = <<>> THEN 0
    ELSE 10 * DigitsValue(SubSeq(ds, 1, Len(ds) - 1)) + DigitVal(ds[Len(ds)])

\* parseInt( string, 10 ): leading white space, a sign, then the digits up to the
\* first character that is not one; NaN when there is no digit.
parseIntString(s) ==
    LET t == SkipWhiteSpace(s)
        signed == t # <<>> /\ Head(t) \in {"-", "+"}
        negative == t # <<>> /\ Head(t) = "-"
        ds == DigitRun(IF signed THEN Tail(t) ELSE t)
    IN IF ds = <<>> THEN NaN
       ELSE Int32(IF negative THEN 0 - DigitsValue(ds) ELSE DigitsValue(ds))

\* parseInt( value, 10 ) of any value: the value is converted to a string first.
parseInt(v) == parseIntString(toString(v))

\* lodash isEqual on the values of the model: deep, type-sensitive equality
\* ( isEqual( 7, '7' ) is false ).
isEqual(a, b) == a = b

(***************************************************************************)
(* The DOM of the classic editor: the child nodes of select#parent_id.     *)
(* A node reference is a position in the child list, 0 for null/undefined. *)
(***************************************************************************)
Option(value, className) ==
    [nodeType |-> "option", value |-> value, className |-> className]
\* White space between two <option> elements; it has no className and no value.
TextNode == [nodeType |-> "text", value |-> <<>>, className |-> <<>>]

LevelPrefix == <<"l", "e", "v", "e", "l", "-">>
\* The class WordPress gives the option of a page at depth d.
LevelClass(d) == LevelPrefix \o NatToString(d)

\* node.options: the positions of the child nodes that are options.
RECURSIVE OptionPositions(_, _)
OptionPositions(children, from) ==
    IF from > Len(children) THEN <<>>
    ELSE (IF children[from].nodeType = "option" THEN <<from>> ELSE <<>>)
         \o OptionPositions(children, from + 1)

\* node.options[ selectedIndex ]: undefined (0) when the index designates no option.
SelectedOption(children, index) ==
    LET options == OptionPositions(children, 1)
    IN IF index >= 0 /\ index < Len(options) THEN options[index + 1] ELSE 0

previousSibling(pos) == pos - 1

(***************************************************************************)
(* The default state.                                                      *)
(***************************************************************************)
INITIAL_STATE == [post_ancestors |-> <<>>, post_parent_id |-> 0, post_level |-> 1]

\* What a call leaves when it does not return a value.
TypeError == [throws |-> "TypeError"]
RangeError == [throws |-> "RangeError"]
Throws(r) == r \in {TypeError, RangeError}

(***************************************************************************)
(* Classic editor: the extraction from the selected option.                *)
(***************************************************************************)
getParentIdFromOption(option) ==
    LET value == parseIntString(option.value)
    IN IF ~isNaN(value) THEN value.n ELSE 0

\* /^level-(\d+)/ on a class name: the captured digits, <<>> when it does not match.
MatchLevel(className) ==
    IF Len(className) > Len(LevelPrefix)
       /\ SubSeq(className, 1, Len(LevelPrefix)) = LevelPrefix
    THEN DigitRun(SubSeq(className, Len(LevelPrefix) + 1, Len(className)))
    ELSE <<>>

getLevelFromOption_NoIncrement(option) ==
    IF option.nodeType = "option" /\ option.className # <<>>
    THEN LET matches == MatchLevel(option.className)
         IN IF matches # <<>> THEN parseIntString(matches).n ELSE 0
    ELSE 0

getLevelFromOption(option) ==
    IF option.nodeType = "option" /\ option.className # <<>>
    THEN LET matches == MatchLevel(option.className)
         IN IF matches # <<>> THEN parseIntString(matches).n + 1 ELSE 0
    ELSE 0

\* The while loop of getAncestorsFromOption.
RECURSIVE AncestorsLoop(_, _, _, _)
AncestorsLoop(children, previousOption, level, ancestors) ==
    IF ~(level > 0 /\ previousOption # 0) THEN ancestors
    ELSE IF getLevelFromOption(children[previousOption]) # level
    THEN AncestorsLoop(children, previousSibling(previousOption), level, ancestors)
    ELSE LET id == parseIntString(children[previousOption].value)
         IN AncestorsLoop(children, previousSibling(previousOption), level - 1,
                          IF ~isNaN(id) /\ id.n > 0 THEN <<id.n>> \o ancestors
                          ELSE ancestors)

getAncestorsFromOption_SkipSelected(children, option) ==
    AncestorsLoop(children, previousSibling(option),
                  getLevelFromOption(children[option]) - 1, <<>>)

getAncestorsFromOption(children, option) ==
    AncestorsLoop(children, option, getLevelFromOption(children[option]), <<>>)

\* Reading a property of the undefined option throws a TypeError.
getParentIdAncestorsAndLevelFromSelect(children, selectedIndex) ==
    LET option == SelectedOption(children, selectedIndex)
    IN IF option = 0 THEN TypeError
       ELSE [post_ancestors |-> getAncestorsFromOption(children, option),
             post_parent_id |-> getParentIdFromOption(children[option]),
             post_level |-> getLevelFromOption(children[option]) + 1]


(***************************************************************************)
(* Block editor: the extraction from the list of { id, parent } records.   *)
(***************************************************************************)
\* lodash find( posts, [ 'id', parentId ] ): the position of the first record with
\* that id, 0 (undefined) when there is none.
find(posts, id) ==
    LET hits == { i \in 1..Len(posts) : posts[i].id = id }
    IN IF hits = {} THEN 0 ELSE CHOOSE i \in hits : \A j \in hits : i <= j

\* One activation of getAncestorsFromPostsList: it returns `ancestors`, or calls
\* itself with the parent of the record it found.
Activation_Push(parentId, posts, ancestors) ==
    LET parent == find(posts, parentId)
    IN IF parent = 0
       THEN [returns |-> TRUE, ancestors |-> ancestors, parentId |-> 0]
       ELSE IF posts[parent].parent # 0
       THEN [returns |-> FALSE, ancestors |-> Append(ancestors, posts[parent].id),
             parentId |-> posts[parent].parent]
       ELSE [returns |-> TRUE, ancestors |-> Append(ancestors, posts[parent].id),
             parentId |-> 0]

Activation(parentId, posts, ancestors) ==
    LET parent == find(posts, parentId)
    IN IF parent = 0
       THEN [returns |-> TRUE, ancestors |-> ancestors, parentId |-> 0]
       ELSE IF posts[parent].parent # 0
       THEN [returns |-> FALSE, ancestors |-> <<posts[parent].id>> \o ancestors,
             parentId |-> posts[parent].parent]
       ELSE [returns |-> TRUE, ancestors |-> <<posts[parent].id>> \o ancestors,
             parentId |-> 0]

\* The activations of one call, `depth` of them on the call stack. A recursion
\* that never reaches a return exhausts the stack (or, in an engine with proper
\* tail calls, never ends): the call does not return a value.
RECURSIVE Activations(_, _, _, _)
Activations(parentId, posts, ancestors, depth) ==
    LET a == Activation(parentId, posts, ancestors)
    IN IF a.returns THEN [overflow |-> FALSE, ancestors |-> a.ancestors]
       ELSE IF depth >= CallStackLimit THEN [overflow |-> TRUE, ancestors |-> <<>>]
       ELSE Activations(a.parentId, posts, a.ancestors, depth + 1)

getAncestorsFromPostsList(parentId, posts) == Activations(parentId, posts, <<>>, 1)

\* The end of the map callback: level = ancestors.length + 1 and the state.
PositionState_NoIncrement(ancestors, parentId) ==
    [post_ancestors |-> ancestors, post_parent_id |-> parentId,
     post_level |-> Len(ancestors)]

PositionState(ancestors, parentId) ==
    [post_ancestors |-> ancestors, post_parent_id |-> parentId,
     post_level |-> Len(ancestors) + 1]

\* Post type slugs, and the post types the site registers.
Page == <<"p", "a", "g", "e">>
Post == <<"p", "o", "s", "t">>
Book == <<"b", "o", "o", "k">>
RegisteredTypes == { Page, Post }
Hierarchical(slug) == slug = Page

\* select( 'core' ).getPostType( slug ): undefined until the post types are
\* loaded and for a slug the site does not register. get( postType,
\* [ 'hierarchical' ], false ) of the result.
isHierarchical(slug, typesLoaded) ==
    IF typesLoaded /\ slug \in RegisteredTypes THEN Hierarchical(slug) ELSE FALSE

\* getEntityRecords( 'postType', slug, query ) || []: null until the request is
\* resolved.
getEntityRecordsOrEmpty(recordsLoaded, records) ==
    IF recordsLoaded THEN records ELSE <<>>

\* The map callback of the Gutenberg pipeline. `invoked` tells whether
\* getAncestorsFromPostsList was called.
mapCallback_NoGate(triple, typesLoaded, recordsLoaded, records) ==
    LET parentId == parseInt(triple[3])
        r == getAncestorsFromPostsList(parentId.n,
                 getEntityRecordsOrEmpty(recordsLoaded, records))
    IN [state |-> IF r.overflow THEN RangeError
                  ELSE PositionState(r.ancestors, parentId.n),
        invoked |-> TRUE]

mapCallback(triple, typesLoaded, recordsLoaded, records) ==
    LET parentId == parseInt(triple[3])
    IN IF isNaN(parentId) THEN [state |-> INITIAL_STATE, invoked |-> FALSE]
       ELSE IF ~isHierarchical(triple[2].str, typesLoaded)
       THEN [state |-> INITIAL_STATE, invoked |-> FALSE]
       ELSE LET items == getEntityRecordsOrEmpty(recordsLoaded, records)
                r == getAncestorsFromPostsList(parentId.n, items)
            IN [state |-> IF r.overflow THEN RangeError
                          ELSE PositionState(r.ancestors, parentId.n),
                invoked |-> TRUE]

(***************************************************************************)
(* State.                                                                  *)
(***************************************************************************)
VARIABLES
    \* classic editor: the document and the pipeline the classic filter returns
    nodePresent,    \* document.querySelector( 'select#parent_id' ) finds a node
    children,       \* the child nodes of the select
    selectedIndex,  \* node.selectedIndex, -1 when no option is selected
    cPc,            \* "start", "built", "subscribed", "completed" or "threw"
    cSource,        \* what the filter returned: "of" or "pipe"
    cStart,         \* the argument startWith was given
    cEmitted,       \* the values the sink received, in order
    cFilterSel,     \* history: selectedIndex when the filter ran
    cSubSel,        \* history: selectedIndex when the sink subscribed
    cChanges,       \* history: selectedIndex at each change event listened to
    cChangeCount,   \* selection changes so far
    \* a forest of posts shown to both adapters
    fParent, fOrder, fText, fChosen, fFlat, fRec,
    \* one run of getAncestorsFromPostsList, activation by activation
    rPosts, rTarget, rArg, rAncestors, rDepth, rPc, rResult,
    \* block editor: the data stores and the pipeline the Gutenberg filter returns
    gPostId,        \* select( 'core/editor' ).getCurrentPostId()
    gType,          \* getEditedPostAttribute( 'type' )
    gParent,        \* getEditedPostAttribute( 'parent' )
    gTypesLoaded,   \* the post types have been received
    gRecordsLoaded, \* the request for the records has been resolved
    gRecords,       \* the records getEntityRecords returns once resolved
    gPc,            \* "start", "subscribed" or "threw"
    gPending,       \* the store listeners that have yet to run, in order
    gCombined,      \* combine: the last value of each source
    gPrev,          \* distinctUntilChanged: the last value it let through
    gLastEmitted,   \* the last value the sink received
    gEmitParity,    \* the number of values the sink received, modulo 2
    gDelivered,     \* history: combine has delivered a triple
    gDropped,       \* history: distinctUntilChanged dropped the last triple
    gLastTriple,    \* history: the last triple combine delivered
    gInvoked,       \* history: the last map callback called the extraction
    gSnapshot       \* history: the records the last map callback read

classicVars == <<nodePresent, children, selectedIndex, cPc, cSource, cStart,
                 cEmitted, cFilterSel, cSubSel, cChanges, cChangeCount>>
forestVars == <<fParent, fOrder, fText, fChosen, fFlat, fRec>>
recordVars == <<rPosts, rTarget, rArg, rAncestors, rDepth, rPc, rResult>>
gutenbergVars == <<gPostId, gType, gParent, gTypesLoaded, gRecordsLoaded, gRecords,
                   gPc, gPending, gCombined, gPrev, gLastEmitted, gEmitParity,
                   gDelivered, gDropped, gLastTriple, gInvoked, gSnapshot>>
vars == <<classicVars, forestVars, recordVars, gutenbergVars>>

\* The parts of the state a specification does not use stay as they are here.
ClassicIdle ==
    /\ nodePresent = FALSE /\ children = <<>> /\ selectedIndex = -1
    /\ cPc = "idle" /\ cSource = "none" /\ cStart = INITIAL_STATE
    /\ cEmitted = <<>> /\ cFilterSel = -1 /\ cSubSel = -1
    /\ cChanges = <<>> /\ cChangeCount = 0
ForestIdle ==
    /\ fParent = <<>> /\ fOrder = <<>> /\ fText = FALSE /\ fChosen = -1
    /\ fFlat = INITIAL_STATE /\ fRec = INITIAL_STATE
RecordIdle ==
    /\ rPosts = <<>> /\ rTarget = 0 /\ rArg = 0 /\ rAncestors = <<>>
    /\ rDepth = 0 /\ rPc = "idle" /\ rResult = INITIAL_STATE
GutenbergIdle ==
    /\ gPostId = Undefined /\ gType = Undefined /\ gParent = Undefined
    /\ gTypesLoaded = FALSE /\ gRecordsLoaded = FALSE /\ gRecords = <<>>
    /\ gPc = "idle" /\ gPending = <<>> /\ gCombined = <<>>
    /\ gPrev = [inited |-> FALSE, value |-> <<>>]
    /\ gLastEmitted = INITIAL_STATE /\ gEmitParity = 0 /\ gDelivered = FALSE
    /\ gDropped = FALSE
    /\ gLastTriple = <<>> /\ gInvoked = FALSE /\ gSnapshot = <<>>

(***************************************************************************)
(* Classic editor: the filter                                              *)
(* 'carbon-fields.conditional-display-post-parent.classic'.                *)
(***************************************************************************)
\* The nodes a select of the model is made of: the "(no parent)" option, options
\* of pages at depth 0, 1 and 10, an option whose value is no number, an option
\* whose class is malformed, and white space.
NoParentOption == Option(<<>>, <<>>)
NodePool ==
    { NoParentOption,
      Option(<<"3">>, LevelClass(0)),
      Option(<<"1", "2">>, LevelClass(1)),
      Option(<<"x", "7">>, LevelClass(1)),
      Option(<<"5">>, LevelPrefix \o <<"x">>),
      Option(<<"8">>, LevelClass(10)),
      TextNode }

ClassicDoms == UNION { [1..n -> NodePool] : n \in 0..MaxChildren }

\* of( INITIAL_STATE ) and startWith( value ): what the sink receives on subscribing.
startWith(value) == <<value>>

\* map( ( { target } ) => getParentIdAncestorsAndLevelFromSelect( target ) ): the
\* listener reads the select as it is when the event is handled.
ChangeListener_FirstOption(childNodes, index) ==
    getParentIdAncestorsAndLevelFromSelect(childNodes, 0)

ChangeListener(childNodes, index) ==
    getParentIdAncestorsAndLevelFromSelect(childNodes, index)

InitClassic ==
    /\ nodePresent \in BOOLEAN
    /\ children \in (IF nodePresent THEN ClassicDoms ELSE {<<>>})
    /\ selectedIndex \in -1..(Len(OptionPositions(children, 1)) - 1)
    /\ cPc = "start" /\ cSource = "none" /\ cStart = INITIAL_STATE
    /\ cEmitted = <<>> /\ cFilterSel = -1 /\ cSubSel = -1
    /\ cChanges = <<>> /\ cChangeCount = 0
    /\ ForestIdle /\ RecordIdle /\ GutenbergIdle

\* The filter callback runs: the node is looked up and, when it is there, the
\* argument of startWith is computed from the selection of that moment.
ClassicFilter ==
    /\ cPc = "start"
    /\ cFilterSel' = selectedIndex
    /\ IF ~nodePresent
       THEN /\ cPc' = "built" /\ cSource' = "of" /\ cStart' = INITIAL_STATE
       ELSE LET value == getParentIdAncestorsAndLevelFromSelect(children, selectedIndex)
            IN IF Throws(value)
               THEN /\ cPc' = "threw" /\ UNCHANGED <<cSource, cStart>>
               ELSE /\ cPc' = "built" /\ cSource' = "pipe" /\ cStart' = value
    /\ UNCHANGED <<nodePresent, children, selectedIndex, cEmitted, cSubSel,
                   cChanges, cChangeCount>>
    /\ UNCHANGED <<forestVars, recordVars, gutenbergVars>>

\* A sink subscribes to the source the filter returned.
ClassicSubscribe ==
    /\ cPc = "built"
    /\ cSubSel' = selectedIndex
    /\ cEmitted' = startWith(cStart)
    /\ cPc' = IF cSource = "of" THEN "completed" ELSE "subscribed"
    /\ UNCHANGED <<nodePresent, children, selectedIndex, cSource, cStart,
                   cFilterSel, cChanges, cChangeCount>>
    /\ UNCHANGED <<forestVars, recordVars, gutenbergVars>>

\* The user picks another option (a selection made by the user always designates
\* an option). The browser fires `change`; the listener that fromEvent added on
\* subscription, if any, maps the event and the sink receives the result before
\* the event dispatch returns.
SelectionChange ==
    /\ nodePresent
    /\ cChangeCount < MaxChanges
    /\ \E index \in 0..(Len(OptionPositions(children, 1)) - 1) :
          /\ index # selectedIndex
          /\ selectedIndex' = index
          /\ IF cPc = "subscribed"
             THEN LET value == ChangeListener(children, index)
                  IN /\ cChanges' = Append(cChanges, index)
                     /\ IF Throws(value)
                        THEN cPc' = "threw" /\ UNCHANGED cEmitted
                        ELSE cEmitted' = Append(cEmitted, value) /\ UNCHANGED cPc
             ELSE UNCHANGED <<cPc, cEmitted, cChanges>>
    /\ cChangeCount' = cChangeCount + 1
    /\ UNCHANGED <<nodePresent, children, cSource, cStart, cFilterSel, cSubSel>>
    /\ UNCHANGED <<forestVars, recordVars, gutenbergVars>>

NextClassic == ClassicFilter \/ ClassicSubscribe \/ SelectionChange

SpecClassic == InitClassic /\ [][NextClassic]_vars

(***************************************************************************)
(* Classic editor: the claims.                                             *)
(***************************************************************************)
\* The state the select yields when option `index` is the selected one.
Derived(index) == getParentIdAncestorsAndLevelFromSelect(children, index)

\* The option the k-th value of the sink was derived from: the one selected when
\* the filter ran for the first value, the one of the event for the others.
EmissionOption(k) ==
    children[SelectedOption(children,
                            IF k = 1 THEN cFilterSel ELSE cChanges[k - 1])]

\* Class names /^level-(\d+)/ does not match.
MalformedClasses == { <<>>, LevelPrefix \o <<"x">> }

\* C1 (as amended): every state the classic pipeline emits for a selected option
\* of class `level-d` has post_level = d + 2 (the post being edited is one level
\* below the parent it selects); for an absent or malformed class post_level = 1.
C1_LevelIsDepthPlusTwo ==
    cSource = "pipe" =>
        \A k \in 1..Len(cEmitted) :
            /\ \A d \in 0..12 :
                  EmissionOption(k).className = LevelClass(d)
                      => cEmitted[k].post_level = d + 2
            /\ EmissionOption(k).className \in MalformedClasses
                  => cEmitted[k].post_level = 1

\* C1 witness: the sink has received the state of an option of class level-10
\* and then the state of an option whose class is malformed.
C1_Witness ==
    /\ cSource = "pipe" /\ Len(cEmitted) >= 2
    /\ EmissionOption(1).className = LevelClass(10)
    /\ cEmitted[1].post_level = 12
    /\ EmissionOption(2).className = LevelPrefix \o <<"x">>
    /\ cEmitted[2].post_level = 1

\* C1 as stated: for a selected option of class `level-d` the emitted post_level
\* is d + 1, and 1 for an absent or malformed class.
C1_Original ==
    cSource = "pipe" =>
        \A k \in 1..Len(cEmitted) :
            /\ \A d \in 0..12 :
                  EmissionOption(k).className = LevelClass(d)
                      => cEmitted[k].post_level = d + 1
            /\ EmissionOption(k).className \in MalformedClasses
                  => cEmitted[k].post_level = 1

\* C6 as stated: whatever the state of the select, the classic filter never
\* raises an error, and a document without the select yields the default state.
C6_NeverThrows ==
    /\ cPc # "threw"
    /\ (cPc = "completed" => cEmitted = <<INITIAL_STATE>>)

\* C8 (as amended): the first value the sink receives is the state derived from
\* the option that was selected when the filter ran (startWith's argument is
\* computed then, not on subscription); after it comes exactly one value per
\* change event, derived from the selection at that event, in the order of the
\* events, so that once an event was handled the last value is the state of the
\* current selection.
C8_EmissionsFollowEvents ==
    cPc = "subscribed" =>
        /\ cEmitted = <<Derived(cFilterSel)>>
                        \o [k \in 1..Len(cChanges) |-> Derived(cChanges[k])]
        /\ (cChanges # <<>> => cEmitted[Len(cEmitted)] = Derived(selectedIndex))

\* C8 witness: the selection changed between the filter run and the subscription,
\* and a change event has been handled since.
C8_Witness ==
    /\ cPc = "subscribed"
    /\ Derived(cFilterSel) # Derived(cSubSel)
    /\ cEmitted[1] = Derived(cFilterSel)
    /\ Len(cChanges) = 1 /\ Len(cEmitted) = 2
    /\ cEmitted[2] = Derived(selectedIndex)

\* C8 as stated: the first value is derived from the option selected at
\* subscription time, then one value per change event in the order of the events.
C8_Original ==
    cPc = "subscribed" =>
        /\ cEmitted = <<Derived(cSubSel)>>
                        \o [k \in 1..Len(cChanges) |-> Derived(cChanges[k])]
        /\ (cChanges # <<>> => cEmitted[Len(cEmitted)] = Derived(selectedIndex))

(***************************************************************************)
(* Record list: one run of the end of the map callback, for a hierarchical *)
(* type and a numeric parent id, one activation of                         *)
(* getAncestorsFromPostsList at a time.                                    *)
(***************************************************************************)
RecordPool == [id : 1..MaxRecId, parent : 0..MaxRecId]

\* The collections getEntityRecords can return: every record has its own id. A
\* parent may be missing from the collection, and parent links may form a cycle.
RecordCollections ==
    { posts \in UNION { [1..n -> RecordPool] : n \in 0..MaxRecords } :
        \A i, j \in 1..Len(posts) : posts[i].id = posts[j].id => i = j }

InitRecords ==
    /\ rPosts \in RecordCollections
    /\ rTarget \in 0..(MaxRecId + 1)
    /\ rArg = 0 /\ rAncestors = <<>> /\ rDepth = 0
    /\ rPc = "start" /\ rResult = INITIAL_STATE
    /\ ClassicIdle /\ ForestIdle /\ GutenbergIdle

\* const ancestors = getAncestorsFromPostsList( parentId, items ): the first call.
RecordsCall ==
    /\ rPc = "start"
    /\ rArg' = rTarget /\ rAncestors' = <<>> /\ rDepth' = 1
    /\ rPc' = "running"
    /\ UNCHANGED <<rPosts, rTarget, rResult>>
    /\ UNCHANGED <<classicVars, forestVars, gutenbergVars>>

\* The activation on top of the stack runs: it returns, or calls again; a call
\* the stack has no room for ends the run with a RangeError.
RecordsActivation ==
    /\ rPc = "running"
    /\ LET a == Activation(rArg, rPosts, rAncestors)
       IN IF a.returns
          THEN /\ rAncestors' = a.ancestors /\ rPc' = "returned"
               /\ UNCHANGED <<rArg, rDepth>>
          ELSE IF rDepth >= CallStackLimit
          THEN /\ rPc' = "overflow"
               /\ UNCHANGED <<rArg, rAncestors, rDepth>>
          ELSE /\ rArg' = a.parentId /\ rAncestors' = a.ancestors
               /\ rDepth' = rDepth + 1 /\ UNCHANGED rPc
    /\ UNCHANGED <<rPosts, rTarget, rResult>>
    /\ UNCHANGED <<classicVars, forestVars, gutenbergVars>>

\* The callback builds the state from the ancestors returned.
RecordsReturn ==
    /\ rPc = "returned"
    /\ rResult' = PositionState(rAncestors, rTarget)
    /\ rPc' = "done"
    /\ UNCHANGED <<rPosts, rTarget, rArg, rAncestors, rDepth>>
    /\ UNCHANGED <<classicVars, forestVars, gutenbergVars>>

NextRecords == RecordsCall \/ RecordsActivation \/ RecordsReturn

SpecRecords == InitRecords /\ [][NextRecords]_vars

\* Sequences of distinct record ids.
IdPaths ==
    { path \in UNION { [1..n -> 1..MaxRecId] : n \in 1..MaxRecId } :
        \A i, j \in 1..Len(path) : path[i] = path[j] => i = j }

HasRecord(posts, id) == \E i \in 1..Len(posts) : posts[i].id = id
ParentOf(posts, id) == posts[CHOOSE i \in 1..Len(posts) : posts[i].id = id].parent

\* `path` is the unbroken chain of records from a root (parent 0) down to the
\* record with id p: each record of it is the parent of the next.
IsRootPath(path, posts, p) ==
    /\ path[Len(path)] = p
    /\ \A i \in 1..Len(path) : HasRecord(posts, path[i])
    /\ ParentOf(posts, path[1]) = 0
    /\ \A i \in 1..(Len(path) - 1) : ParentOf(posts, path[i + 1]) = path[i]

\* C3 (as amended): when the parent links form an unbroken chain from a root down
\* to the record with the target parent id p, the result has post_parent_id = p,
\* post_ancestors = the ids of that chain in root-first order with p itself as
\* the last one, and post_level = the length of the chain plus 1.
C3_AncestorsIncludeParent ==
    rPc = "done" =>
        \A path \in IdPaths :
            IsRootPath(path, rPosts, rTarget) =>
                rResult = [post_ancestors |-> path, post_parent_id |-> rTarget,
                           post_level |-> Len(path) + 1]

\* C3 witness: a run over a chain of three records has ended with the three ids,
\* root first, and level 4.
C3_Witness ==
    /\ rPc = "done"
    /\ \E path \in IdPaths :
          /\ Len(path) = 3 /\ IsRootPath(path, rPosts, rTarget)
          /\ rResult.post_ancestors = path /\ rResult.post_level = 4

\* C3 as stated: post_ancestors holds the ids of the records strictly above p
\* (p itself not included) and post_level is that count plus 1.
C3_Original ==
    rPc = "done" =>
        \A path \in IdPaths :
            IsRootPath(path, rPosts, rTarget) =>
                rResult = [post_ancestors |-> SubSeq(path, 1, Len(path) - 1),
                           post_parent_id |-> rTarget,
                           post_level |-> Len(path)]

\* C5 as stated: for every record collection and every target parent id, cycles
\* of parent links included, the extraction returns; no input makes it loop or
\* fail.
C5_AlwaysReturns == rPc # "overflow"

(***************************************************************************)
(* A forest of pages shown to both adapters: as the option list            *)
(* wp_dropdown_pages renders in the classic editor and as the records the  *)
(* core store holds in the block editor.                                   *)
(***************************************************************************)
\* The ids of the pages: one and two digits long.
PostIds == { 7 * i : i \in 1..MaxPosts }
\* The id of the post being edited; it is no page of the forest.
EditedPostId == 1

\* parent[ id ] leads from every page to a root within as many steps as pages.
RECURSIVE ReachesRoot(_, _, _)
ReachesRoot(parent, id, fuel) ==
    IF id = 0 THEN TRUE
    ELSE IF fuel = 0 THEN FALSE
    ELSE ReachesRoot(parent, parent[id], fuel - 1)

\* The forests: the pages, the parent of each (0 for a root), no cycle.
Forests ==
    UNION { { parent \in [S -> S \cup {0}] :
                \A id \in S : ReachesRoot(parent, id, Cardinality(S)) }
            : S \in SUBSET PostIds }

\* The menu orders of the pages of a forest: the sequences holding each page once.
Orders(S) ==
    { order \in [1..Cardinality(S) -> S] :
        \A i, j \in 1..Cardinality(S) : order[i] = order[j] => i = j }

\* The path from the root of the tree of page `id` down to `id`.
RECURSIVE TreePath(_, _)
TreePath(parent, id) ==
    IF id = 0 THEN <<>> ELSE TreePath(parent, parent[id]) \o <<id>>

\* The pages in preorder, the children of a page in menu order, each with its
\* depth: the order in which the walker of the dropdown visits them.
RECURSIVE Preorder(_, _, _, _)
Preorder(parent, order, of, depth) ==
    LET RECURSIVE Visit(_)
        Visit(i) ==
            IF i > Len(order) THEN <<>>
            ELSE (IF parent[order[i]] = of
                  THEN <<[id |-> order[i], depth |-> depth]>>
                       \o Preorder(parent, order, order[i], depth + 1)
                  ELSE <<>>)
                 \o Visit(i + 1)
    IN Visit(1)

\* The child nodes of the select: the "(no parent)" option, then one option per
\* page, of class level-<depth> and with the id as value; with or without white
\* space between the options.
RECURSIVE RenderOptions(_, _)
RenderOptions(pages, withText) ==
    IF pages = <<>> THEN <<>>
    ELSE (IF withText THEN <<TextNode>> ELSE <<>>)
         \o <<Option(NatToString(Head(pages).id), LevelClass(Head(pages).depth))>>
         \o RenderOptions(Tail(pages), withText)

DropdownPages(parent, order, withText) ==
    <<NoParentOption>> \o RenderOptions(Preorder(parent, order, 0, 0), withText)

\* The selectedIndex of the option of page `id`; 0, "(no parent)", for id 0.
OptionIndexOf(parent, order, id) ==
    LET pages == Preorder(parent, order, 0, 0)
    IN IF id = 0 THEN 0 ELSE CHOOSE i \in 1..Len(pages) : pages[i].id = id

\* The records of the forest, in menu order.
ForestRecords(parent, order) ==
    [i \in 1..Len(order) |-> [id |-> order[i], parent |-> parent[order[i]]]]

InitForest ==
    /\ fParent \in Forests
    /\ fOrder \in Orders(DOMAIN fParent)
    /\ fText \in BOOLEAN
    /\ fChosen = -1 /\ fFlat = INITIAL_STATE /\ fRec = INITIAL_STATE
    /\ ClassicIdle /\ RecordIdle /\ GutenbergIdle

\* The author picks page `id` (or no page) as the parent. In the classic editor
\* the option of the page becomes the selected one and the select is read; in the
\* block editor the parent attribute becomes the id and the map callback runs.
ChooseParent ==
    \E id \in (DOMAIN fParent) \cup {0} :
        /\ id # fChosen
        /\ fChosen' = id
        /\ fFlat' = getParentIdAncestorsAndLevelFromSelect(
                        DropdownPages(fParent, fOrder, fText),
                        OptionIndexOf(fParent, fOrder, id))
        /\ fRec' = mapCallback(<<JSNumber(EditedPostId), JSString(Page), JSNumber(id)>>,
                               TRUE, TRUE, ForestRecords(fParent, fOrder)).state
        /\ UNCHANGED <<fParent, fOrder, fText>>
        /\ UNCHANGED <<classicVars, recordVars, gutenbergVars>>

NextForest == ChooseParent

SpecForest == InitForest /\ [][NextForest]_vars

\* C2 (as amended): selecting the option of a page at depth d of a forest
\* rendered in preorder yields post_parent_id = the id of the page and
\* post_ancestors = the ids of its d tree ancestors in root-first order followed
\* by the id of the selected page itself (d + 1 ids), and post_level = d + 2.
C2_AncestorsEndWithSelected ==
    fChosen > 0 =>
        fFlat = [post_ancestors |-> TreePath(fParent, fChosen),
                 post_parent_id |-> fChosen,
                 post_level |-> Len(TreePath(fParent, fChosen)) + 1]

\* C2 witness: a page at depth 1 that is not the first child listed after its
\* parent is selected.
C2_Witness ==
    /\ fChosen > 0
    /\ Len(TreePath(fParent, fChosen)) = 2
    /\ \E other \in DOMAIN fParent :
          /\ other # fChosen /\ fParent[other] = fParent[fChosen]
          /\ OptionIndexOf(fParent, fOrder, other)
               < OptionIndexOf(fParent, fOrder, fChosen)
    /\ fFlat.post_ancestors = <<fParent[fChosen], fChosen>>
    /\ fFlat.post_level = 3

\* C2 as stated: post_ancestors holds exactly the d tree ancestors of the
\* selected page, its own id not included, and post_level is d + 1.
C2_Original ==
    fChosen > 0 =>
        fFlat = [post_ancestors |-> TreePath(fParent, fParent[fChosen]),
                 post_parent_id |-> fChosen,
                 post_level |-> Len(TreePath(fParent, fParent[fChosen])) + 1]

\* C9: for every forest, presented as the option list and as the complete
\* record collection, and every choice of parent (a page or none), the two
\* adapters yield equal states.
C9_AdaptersAgree == fChosen # -1 => fFlat = fRec

\* C9 witness: both adapters have been run for a page at depth 2, and for no
\* parent.
C9_Witness ==
    \/ /\ fChosen > 0 /\ Len(TreePath(fParent, fChosen)) = 3
       /\ fRec.post_level = 4 /\ fFlat.post_level = 4
    \/ /\ fChosen = 0 /\ fParent # <<>> /\ fRec = INITIAL_STATE /\ fFlat = fRec

(***************************************************************************)
(* Block editor: the filter                                                *)
(* 'carbon-fields.conditional-display-post-parent.gutenberg'.              *)
(***************************************************************************)
\* The values of the `parent` attribute: numbers, a string holding a number, a
\* string holding none, and undefined.
ParentAttributes ==
    { JSNumber(0), JSNumber(7), JSNumber(14),
      JSString(<<"7">>), JSString(<<"a">>), Undefined }
\* Those parseInt( parent, 10 ) turns into NaN.
NonNumericParents == { JSString(<<"a">>), Undefined }

TypeAttributes == { JSString(Page), JSString(Post), JSString(Book) }

\* The record collections of the store. WordPress refuses a parent that would
\* close a loop, so the parent links of stored pages form no cycle; a parent may
\* be missing, since the query leaves out the edited post and its children.
StoreRecords ==
    { <<>>,
      <<[id |-> 7, parent |-> 0]>>,
      <<[id |-> 7, parent |-> 0], [id |-> 14, parent |-> 7]>>,
      <<[id |-> 14, parent |-> 7]>> }

\* combine has no value yet from a source.
NoValue == [type |-> "none", num |-> 0, str |-> <<>>]

\* fromSelector( selector, ...args ): the value source `i` emits, the selector
\* applied to the store as it is when the listener runs.
fromSelector(i) ==
    CASE i = 1 -> gPostId
      [] i = 2 -> gType
      [] OTHER -> gParent

\* combine( a, b, c ): the last values with the one of source `i` replaced; a
\* triple is delivered once every source has emitted.
combine(last, i, value) == [last EXCEPT ![i] = value]
Complete(last) == \A i \in 1..3 : last[i] # NoValue

\* distinctUntilChanged( isEqual ): whether `data` is let through.
distinctUntilChanged_ParentOnly(prev, data) ==
    ~prev.inited \/ ~isEqual(prev.value[3], data[3])

distinctUntilChanged_Always(prev, data) == TRUE

distinctUntilChanged(prev, data) ==
    ~prev.inited \/ ~isEqual(prev.value, data)

\* The triple the selectors yield on the store as it is.
StoreTriple == <<gPostId, gType, gParent>>

InitGutenberg ==
    /\ gPostId = JSNumber(EditedPostId)
    /\ gType \in TypeAttributes
    /\ gParent \in ParentAttributes
    /\ gTypesLoaded \in BOOLEAN
    /\ gRecordsLoaded = FALSE /\ gRecords = <<>>
    /\ gPc = "start" /\ gPending = <<>>
    /\ gCombined = <<NoValue, NoValue, NoValue>>
    /\ gPrev = [inited |-> FALSE, value |-> <<>>]
    /\ gLastEmitted = INITIAL_STATE /\ gEmitParity = 0 /\ gDelivered = FALSE
    /\ gDropped = FALSE
    /\ gLastTriple = <<>> /\ gInvoked = FALSE /\ gSnapshot = <<>>
    /\ ClassicIdle /\ ForestIdle /\ RecordIdle

\* The store calls its listeners after a dispatch: the three sources of the
\* pipeline, in the order combine subscribed to them.
Notified == IF gPc = "subscribed" THEN <<1, 2, 3>> ELSE <<>>

\* A sink subscribes to the pipeline: combine subscribes to the three sources,
\* and each emits its current value.
GutenbergSubscribe ==
    /\ gPc = "start"
    /\ gPc' = "subscribed"
    /\ gPending' = <<1, 2, 3>>
    /\ UNCHANGED <<gPostId, gType, gParent, gTypesLoaded, gRecordsLoaded, gRecords,
                   gCombined, gPrev, gLastEmitted, gEmitParity, gDelivered,
                   gDropped, gLastTriple, gInvoked, gSnapshot>>
    /\ UNCHANGED <<classicVars, forestVars, recordVars>>

\* The next source emits. Once combine holds three values it delivers the triple;
\* distinctUntilChanged lets it through or drops it; the map callback turns a
\* triple let through into the state the sink receives.
SourceEmit ==
    /\ gPc = "subscribed"
    /\ gPending # <<>>
    /\ gPending' = Tail(gPending)
    /\ LET triple == combine(gCombined, Head(gPending), fromSelector(Head(gPending)))
           result == mapCallback(triple, gTypesLoaded, gRecordsLoaded, gRecords)
       IN /\ gCombined' = triple
          /\ IF ~Complete(triple)
             THEN UNCHANGED <<gPc, gPrev, gLastEmitted, gEmitParity, gDelivered,
                              gDropped, gLastTriple, gInvoked, gSnapshot>>
             ELSE /\ gDelivered' = TRUE
                  /\ gLastTriple' = triple
                  /\ gDropped' = ~distinctUntilChanged(gPrev, triple)
                  /\ IF ~distinctUntilChanged(gPrev, triple)
                     THEN UNCHANGED <<gPc, gPrev, gLastEmitted, gEmitParity,
                                      gInvoked, gSnapshot>>
                     ELSE /\ gPrev' = [inited |-> TRUE, value |-> triple]
                          /\ gInvoked' = result.invoked
                          /\ gSnapshot' = IF result.invoked
                                          THEN getEntityRecordsOrEmpty(gRecordsLoaded,
                                                                       gRecords)
                                          ELSE <<>>
                          /\ IF Throws(result.state)
                             THEN gPc' = "threw"
                                  /\ UNCHANGED <<gLastEmitted, gEmitParity>>
                             ELSE /\ gLastEmitted' = result.state
                                  /\ gEmitParity' = 1 - gEmitParity
                                  /\ UNCHANGED gPc
    /\ UNCHANGED <<gPostId, gType, gParent, gTypesLoaded, gRecordsLoaded, gRecords>>
    /\ UNCHANGED <<classicVars, forestVars, recordVars>>

\* The author changes the parent of the post.
EditParent ==
    /\ gPending = <<>>
    /\ \E parent \in ParentAttributes \ {gParent} : gParent' = parent
    /\ gPending' = Notified
    /\ UNCHANGED <<gPostId, gType, gTypesLoaded, gRecordsLoaded, gRecords, gPc,
                   gCombined, gPrev, gLastEmitted, gEmitParity, gDelivered,
                   gDropped, gLastTriple, gInvoked, gSnapshot>>
    /\ UNCHANGED <<classicVars, forestVars, recordVars>>

\* The edited post is reset from the server: its type and its parent change in
\* one dispatch.
ResetPost ==
    /\ gPending = <<>>
    /\ \E type \in TypeAttributes \ {gType} : gType' = type
    /\ \E parent \in ParentAttributes : gParent' = parent
    /\ gPending' = Notified
    /\ UNCHANGED <<gPostId, gTypesLoaded, gRecordsLoaded, gRecords, gPc,
                   gCombined, gPrev, gLastEmitted, gEmitParity, gDelivered,
                   gDropped, gLastTriple, gInvoked, gSnapshot>>
    /\ UNCHANGED <<classicVars, forestVars, recordVars>>

\* The store receives the records, or other records than it held.
ReceiveRecords ==
    /\ gPending = <<>>
    /\ \E records \in StoreRecords :
          /\ ~(gRecordsLoaded /\ records = gRecords)
          /\ gRecords' = records
    /\ gRecordsLoaded' = TRUE
    /\ gPending' = Notified
    /\ UNCHANGED <<gPostId, gType, gParent, gTypesLoaded, gPc,
                   gCombined, gPrev, gLastEmitted, gEmitParity, gDelivered,
                   gDropped, gLastTriple, gInvoked, gSnapshot>>
    /\ UNCHANGED <<classicVars, forestVars, recordVars>>

\* The store receives the post types.
ReceivePostTypes ==
    /\ gPending = <<>>
    /\ ~gTypesLoaded
    /\ gTypesLoaded' = TRUE
    /\ gPending' = Notified
    /\ UNCHANGED <<gPostId, gType, gParent, gRecordsLoaded, gRecords, gPc,
                   gCombined, gPrev, gLastEmitted, gEmitParity, gDelivered,
                   gDropped, gLastTriple, gInvoked, gSnapshot>>
    /\ UNCHANGED <<classicVars, forestVars, recordVars>>

NextGutenberg ==
    \/ GutenbergSubscribe
    \/ SourceEmit
    \/ EditParent
    \/ ResetPost
    \/ ReceiveRecords
    \/ ReceivePostTypes

SpecGutenberg == InitGutenberg /\ [][NextGutenberg]_vars

(***************************************************************************)
(* Block editor: the claims.                                               *)
(***************************************************************************)
\* A step in which a source emitted and combine delivered a triple.
TripleDelivered ==
    /\ gPending # <<>> /\ gPending' = Tail(gPending)
    /\ Complete(gCombined')

\* C4: the sink receives a state for a delivered triple if and only if the triple
\* is the first one or is not deeply equal to the triple delivered just before.
C4_EmitsIffTripleChanged ==
    [][TripleDelivered =>
          ((gEmitParity' # gEmitParity)
              <=> (~gDelivered \/ ~isEqual(gCombined', gLastTriple)))]_vars

\* C4 witness: a state has been emitted, and the triple delivered last, equal to
\* the one before it, was dropped.
C4_Witness ==
    /\ gDelivered /\ gDropped
    /\ gLastTriple = gPrev.value
    /\ gEmitParity = 1

\* The gate: the type of the triple is not a hierarchical type of the site, or
\* its parent does not parse to a number.
GateFails(triple) ==
    \/ ~(triple[2].str \in RegisteredTypes /\ Hierarchical(triple[2].str))
    \/ triple[3] \in NonNumericParents

\* C7: for a triple whose type is not hierarchical or unknown, or whose parent
\* does not parse to a number, the state emitted is the default state, whatever
\* the parent id and the records, and getAncestorsFromPostsList is not called.
C7_GateYieldsDefault ==
    (gPrev.inited /\ GateFails(gPrev.value)) =>
        (gLastEmitted = INITIAL_STATE /\ ~gInvoked)

\* C7 witness: the default state was emitted for a post of a type that is not
\* hierarchical whose parent id is the id of a stored record.
C7_Witness ==
    /\ gPrev.inited /\ gPending = <<>>
    /\ gPrev.value[2] = JSString(Post) /\ gPrev.value[3] = JSNumber(7)
    /\ gTypesLoaded /\ gRecordsLoaded /\ find(gRecords, 7) # 0
    /\ gLastEmitted = INITIAL_STATE

\* C10: in a step that leaves the (post id, type, parent) triple of the store
\* deeply equal to the triple let through last, such as a change of the records
\* alone and the listeners run it causes, the sink receives nothing; the last
\* state emitted is the one computed from the records as they were read when
\* that triple was let through.
C10_RecordsAloneEmitNothing ==
    /\ [][(gPrev.inited /\ isEqual(StoreTriple, gPrev.value)
                        /\ isEqual(StoreTriple', gPrev.value))
             => UNCHANGED <<gEmitParity, gLastEmitted>>]_vars
    /\ []((gPrev.inited /\ gInvoked) =>
             gLastEmitted = mapCallback(gPrev.value, TRUE, TRUE, gSnapshot).state)

\* C10 witness: the records arrived after the state was emitted; the listeners
\* have run, the state emitted last still has the ancestors of the empty list,
\* and the callback would now compute another state.
C10_Witness ==
    /\ gPc = "subscribed" /\ gPending = <<>>
    /\ gPrev.inited /\ gInvoked /\ gDropped
    /\ isEqual(StoreTriple, gPrev.value)
    /\ gSnapshot = <<>> /\ gRecordsLoaded
    /\ gLastEmitted.post_ancestors = <<>>
    /\ mapCallback(StoreTriple, gTypesLoaded, gRecordsLoaded, gRecords).state
         # gLastEmitted

=============================================================================
